---- MODULE Spec2Model ----
(***************************************************************************)
(* Model of the graph relationship-inference engine of flagright-backend:  *)
(* UserModel.upsert / TransactionModel.upsert with their link derivation,  *)
(* and the read-only relationship queries, over an abstract property graph *)
(* (the committed Neo4j store).                                            *)
(***************************************************************************)
EXTENDS Integers, FiniteSets, Sequences, TLC

(* ---------------------------------------------------------------- bounds *)
\* Size of the pool the store's randomUUID() draws User ids from.
MaxUsers == 3
\* Number of Persons created where a claim is about a pair of Persons.
PairOfUsers == 2
\* Size of the pool the store's randomUUID() draws Transaction ids from.
MaxTransactions == 3
\* Number of Transfers created where a claim is about a pair of Transfers.
PairOfTransfers == 2

(* ------------------------------------------------------------ value sets *)
Null == "null"
\* a payload without an id (create)
NoId == "noId"
\* a well-formed id that no randomUUID() call ever returns
GhostId == "ghost"

UserIdSeq == <<"u1", "u2", "u3", "u4">>
UserIds == {UserIdSeq[i] : i \in 1..MaxUsers}
TxIdSeq == <<"t1", "t2", "t3", "t4">>
TxIds == {TxIdSeq[i] : i \in 1..MaxTransactions}

Emails == {"a@x.io", "b@x.io"}
Phones == {"555"}
Addresses == {[street |-> "1 Main St", city |-> "Pune"]}
\* no address group in the payload / no Address satellite in the graph
NoAddress == [street |-> "absent", city |-> "absent"]
Instruments == {"pm1", "pm2"}

DeviceIds == {"dev1", "dev2"}
Ips == {"10.0.0.1", "10.0.0.2"}
\* no deviceInfo group in the payload / no DeviceInfo satellite in the graph
NoDevice == "absent"

\* amount: a positive number, zero, a negative one; NullAmount: null / not supplied
Amounts == {5, 0, -5}
NullAmount == -1
\* currency: a code, the empty string
Currencies == {"USD", ""}

TxRelKinds == {"SHARED_IP", "SHARED_DEVICE"}
UserRelKinds == {"SHARED_EMAIL", "SHARED_PHONE", "SHARED_ADDRESS", "SHARED_PAYMENT_METHOD"}

\* Payloads of UserModel.upsert: Partial<IUser> as UserSchema lets it through
\* (email required; phone, address and paymentMethods optional, Null/NoAddress/{}
\* when absent; firstName/lastName play no part in any link rule and are left out).
\* paymentMethods lists distinct instrument ids.
UserPayloads ==
  [ id : UserIds \cup {NoId, GhostId},
    email : Emails,
    phone : Phones \cup {Null},
    address : Addresses \cup {NoAddress},
    paymentMethods : SUBSET Instruments ]

\* Payloads of TransactionModel.upsert: Partial<ITransaction>.  senderId and
\* receiverId are Null when the payload leaves them out; deviceInfo is NoDevice
\* when the group is left out, else the ipAddress it carries (Null: none).
\* amount and currency stand for the scalar attributes (NullAmount / Null when
\* the payload leaves them out).
TransactionPayloads ==
  [ id : TxIds \cup {NoId, GhostId},
    senderId : UserIds \cup {GhostId, Null},
    receiverId : UserIds \cup {GhostId, Null},
    amount : Amounts \cup {NullAmount},
    currency : Currencies \cup {Null},
    deviceId : DeviceIds \cup {Null},
    deviceInfo : Ips \cup {Null, NoDevice} ]

(* ------------------------------------------------------------- the graph *)
\* The committed property graph.  Edge multiplicities are kept: Cypher CREATE
\* adds one relationship per matched row, so parallel edges are possible.
\* updated holds the Users whose updatedAt no longer equals their createdAt.
EmptyGraph ==
  [ users    |-> {},
    updated  |-> {},
    email    |-> [u \in UserIds |-> Null],
    phone    |-> [u \in UserIds |-> Null],
    address  |-> [u \in UserIds |-> NoAddress],
    pms      |-> [u \in UserIds |-> {}],
    shared   |-> [k \in UserRelKinds |-> [a \in UserIds |-> [b \in UserIds |-> 0]]],
    txs        |-> {},
    senderId   |-> [t \in TxIds |-> Null],
    receiverId |-> [t \in TxIds |-> Null],
    amount     |-> [t \in TxIds |-> NullAmount],
    currency   |-> [t \in TxIds |-> Null],
    deviceId   |-> [t \in TxIds |-> Null],
    deviceIp   |-> [t \in TxIds |-> NoDevice],
    sent       |-> [u \in UserIds |-> [t \in TxIds |-> 0]],
    receivedBy |-> [t \in TxIds |-> [u \in UserIds |-> 0]],
    sharedTx   |-> [k \in TxRelKinds |-> [a \in TxIds |-> [b \in TxIds |-> 0]]] ]

\* sessions: how many driver sessions are open; inflight: the upserts and
\* queries that have opened a session and not yet returned, one per caller.
VARIABLES db, last, sessions, inflight

vars == <<db, last, sessions, inflight>>

\* How many callers may be inside an operation at once.
MaxCallers == 2
Callers == 1..MaxCallers

\* an id generator that hands out the same id again
ReusedUserId(g) == UserIdSeq[1]

\* randomUUID(): an id no node carries yet (the least unused one of the pool;
\* the ids are interchangeable).
NewUserId(g) ==
  UserIdSeq[CHOOSE i \in 1..MaxUsers :
              /\ UserIdSeq[i] \notin g.users
              /\ \A j \in 1..(i - 1) : UserIdSeq[j] \in g.users]

(* ----------------------------------------------- UserModel: link derivation *)
\* CREATE (u1)-[:kind]->(u2) once per row: rows[u2] more edges from userId to u2.
AddUserEdges(g, kind, userId, rows) ==
  [g EXCEPT !.shared[kind][userId] =
     [u2 \in UserIds |-> g.shared[kind][userId][u2] + rows[u2]]]

\* an email query that matches no User
NoEmailRows(g, userId, userData) == [u2 \in UserIds |-> 0]

\* MATCH (u1 {id}), (u2:User) WHERE u2.email = $email AND u2.id <> $userId
SharedEmailRows(g, userId, userData) ==
  [u2 \in UserIds |->
     IF u2 \in g.users /\ u2 # userId /\ g.email[u2] = userData.email THEN 1 ELSE 0]

SharedPhoneRows(g, userId, userData) ==
  [u2 \in UserIds |->
     IF u2 \in g.users /\ u2 # userId /\ g.phone[u2] = userData.phone THEN 1 ELSE 0]

\* (u1)-[:HAS_ADDRESS]->(a1) is part of the pattern: no row without an Address.
SharedAddressRows(g, userId, userData) ==
  [u2 \in UserIds |->
     IF /\ g.address[userId] # NoAddress
        /\ u2 \in g.users /\ u2 # userId /\ g.address[u2] # NoAddress
        /\ g.address[u2].street = userData.address.street
        /\ g.address[u2].city = userData.address.city
     THEN 1 ELSE 0]

\* One query per payload instrument; p1 ranges over every instrument of u1 and
\* is not tied to $paymentId, so each match (u2, p2) yields |instruments of u1| rows.
SharedPaymentRows(g, userId, userData) ==
  [u2 \in UserIds |->
     IF u2 \in g.users /\ u2 # userId
     THEN Cardinality(g.pms[userId]) * Cardinality(userData.paymentMethods \cap g.pms[u2])
     ELSE 0]

createSharedRelationships(g, userId, userData) ==
  LET g1 == IF userData.email # Null
            THEN AddUserEdges(g, "SHARED_EMAIL", userId, SharedEmailRows(g, userId, userData))
            ELSE g
      g2 == IF userData.phone # Null
            THEN AddUserEdges(g1, "SHARED_PHONE", userId, SharedPhoneRows(g1, userId, userData))
            ELSE g1
      g3 == IF userData.address # NoAddress /\ userData.address.street # Null
                                      /\ userData.address.city # Null
            THEN AddUserEdges(g2, "SHARED_ADDRESS", userId, SharedAddressRows(g2, userId, userData))
            ELSE g2
      g4 == IF userData.paymentMethods # {}
            THEN AddUserEdges(g3, "SHARED_PAYMENT_METHOD", userId,
                              SharedPaymentRows(g3, userId, userData))
            ELSE g3
  IN g4

\* a delete that also takes the derived edges pointing at the User
DeleteSharedAround(g, userId) ==
  [g EXCEPT !.shared = [k \in UserRelKinds |->
     [a \in UserIds |-> [b \in UserIds |->
        IF a = userId \/ b = userId THEN 0 ELSE g.shared[k][a][b]]]]]

\* MATCH (u {id})-[r:SHARED_*]->() DELETE r : the outgoing derived edges only.
DeleteSharedFrom(g, userId) ==
  [g EXCEPT !.shared = [k \in UserRelKinds |->
     [g.shared[k] EXCEPT ![userId] = [b \in UserIds |-> 0]]]]

(* ------------------------------------------------- UserModel: entity write *)
CreateUserNode(g, userId, userData) ==
  [g EXCEPT !.users = @ \cup {userId},
            !.email[userId] = userData.email,
            !.phone[userId] = userData.phone]

SetUserProps(g, userId, userData) ==
  [g EXCEPT !.updated = @ \cup {userId},
            !.email[userId] = userData.email,
            !.phone[userId] = userData.phone]

\* delete the Address satellite (update only) and create the payload's one
ReplaceAddress(g, userId, userData) ==
  IF userData.address # NoAddress THEN [g EXCEPT !.address[userId] = userData.address] ELSE g

\* delete the PaymentMethod satellites (update only) and create the payload's
ReplacePaymentMethods(g, userId, userData) ==
  IF userData.paymentMethods # {}
  THEN [g EXCEPT !.pms[userId] = userData.paymentMethods] ELSE g

\* The uncommitted graph of the create path after its first n storage calls.
UserCreateWork(g, userId, userData, n) ==
  LET g1 == IF n >= 1 THEN CreateUserNode(g, userId, userData) ELSE g
      g2 == IF n >= 2 THEN ReplaceAddress(g1, userId, userData) ELSE g1
      g3 == IF n >= 3 THEN ReplacePaymentMethods(g2, userId, userData) ELSE g2
      g4 == IF n >= 4 THEN createSharedRelationships(g3, userId, userData) ELSE g3
  IN g4

\* The uncommitted graph of updateExistingUser after its first n storage calls.
updateExistingUser(g, userId, userData, n) ==
  LET g1 == IF n >= 1 THEN SetUserProps(g, userId, userData) ELSE g
      g2 == IF n >= 2 THEN ReplaceAddress(g1, userId, userData) ELSE g1
      g3 == IF n >= 3 THEN ReplacePaymentMethods(g2, userId, userData) ELSE g2
      g4 == IF n >= 4 THEN DeleteSharedFrom(g3, userId) ELSE g3
      g5 == IF n >= 5 THEN createSharedRelationships(g4, userId, userData) ELSE g4
  IN g5

(* ----------------------------------------------- transaction and outcome *)
\* a finally block that forgets the session
LeaveSessionOpen(n) == n

\* finally { await session.close(); }
CloseSession(n) == n - 1

\* const session = Neo4jDriver.getSession();
GetSession(n) == n + 1

\* The open sessions after a call that has returned or thrown: the model
\* methods open one session and close it in finally; a request the validation
\* middleware answers never reaches them.
SessionsAfter(n, outcome) ==
  IF outcome.op = "validateRequest" THEN n ELSE CloseSession(GetSession(n))

\* a failure path that leaves the uncommitted work in the store
KeepWork(committed, working) == working

\* tx.rollback(): the store drops the uncommitted work.
Rollback(committed, working) == committed

\* tx.commit(): the uncommitted work becomes the committed graph.
Commit(committed, working) == working

\* catch (error) { ...; throw new AppError('Error while upserting ...: ' + message) }
\* builds the surfaced error with no status argument, whatever was caught.
UpsertErrorStatus(inner) == "default"

\* What a call leaves behind: the committed graph and what the caller saw
\* (status/code/inner: the outcome, the status argument the surfaced AppError
\* was built with, the status of the error first thrown; tx: how the write
\* transaction ended; errors: how many errors reached the caller; sender and
\* receiver: the payer and payee ids of an applied Transfer payload).
Succeeded(op, committed, working, suppliedId, entity, isNew) ==
  [ db |-> Commit(committed, working),
    last |-> [ op |-> op, id |-> suppliedId, status |-> "ok", code |-> "none",
               inner |-> "none", isNew |-> isNew, entity |-> entity,
               tx |-> "committed", errors |-> 0,
               sender |-> Null, receiver |-> Null ] ]

Failed(op, committed, working, suppliedId, inner) ==
  [ db |-> Rollback(committed, working),
    last |-> [ op |-> op, id |-> suppliedId, status |-> "error",
               code |-> UpsertErrorStatus(inner),
               inner |-> inner, isNew |-> FALSE, entity |-> Null,
               tx |-> "rolledback", errors |-> 1,
               sender |-> Null, receiver |-> Null ] ]

\* UserModel.upsert; fail = k makes the k-th storage call of the path throw.
UserUpsert(g, userData, fail) ==
  IF userData.id # NoId
  THEN IF fail = 1
       THEN Failed("upsertUser", g, g, userData.id, "storage")
       ELSE IF userData.id \in g.users
            THEN IF fail \in 2..7
                 THEN Failed("upsertUser", g,
                             updateExistingUser(g, userData.id, userData, fail - 2),
                             userData.id, "storage")
                 ELSE Succeeded("upsertUser", g,
                                updateExistingUser(g, userData.id, userData, 5),
                                userData.id, userData.id, FALSE)
            ELSE Failed("upsertUser", g, g, userData.id, "404")
  ELSE LET newId == NewUserId(g)
       IN IF fail \in 1..5
          THEN Failed("upsertUser", g, UserCreateWork(g, newId, userData, fail - 1),
                      NoId, "storage")
          ELSE Succeeded("upsertUser", g, UserCreateWork(g, newId, userData, 4),
                         NoId, newId, TRUE)

(* ------------------------------------------------------ TransactionModel *)
NewTransactionId(g) ==
  TxIdSeq[CHOOSE i \in 1..MaxTransactions :
            /\ TxIdSeq[i] \notin g.txs
            /\ \A j \in 1..(i - 1) : TxIdSeq[j] \in g.txs]

\* MATCH (sender:User {id}) MATCH (receiver:User {id}) ... : one row when both
\* ids name a User, none otherwise; one SENT and one RECEIVED_BY edge per row.
LinkRows(g, senderId, receiverId) ==
  IF senderId \in g.users /\ receiverId \in g.users THEN 1 ELSE 0

CreateLinkage(g, transactionId, senderId, receiverId) ==
  IF LinkRows(g, senderId, receiverId) = 0 THEN g
  ELSE [g EXCEPT !.sent[senderId][transactionId] = @ + 1,
                 !.receivedBy[transactionId][receiverId] = @ + 1]

\* MATCH (t {id})-[r:SENT|RECEIVED_BY]->() DELETE r : a directed pattern
DeleteOutgoingLinkage(g, transactionId) ==
  [g EXCEPT !.receivedBy[transactionId] = [u \in UserIds |-> 0]]

\* MATCH (t {id})-[r:SENT|RECEIVED_BY]-() DELETE r
DeleteLinkage(g, transactionId) ==
  [g EXCEPT !.sent = [u \in UserIds |-> [g.sent[u] EXCEPT ![transactionId] = 0]],
            !.receivedBy[transactionId] = [u \in UserIds |-> 0]]

CreateTransactionNode(g, transactionId, transactionData) ==
  IF LinkRows(g, transactionData.senderId, transactionData.receiverId) = 0 THEN g
  ELSE CreateLinkage(
         [g EXCEPT !.txs = @ \cup {transactionId},
                   !.senderId[transactionId] = transactionData.senderId,
                   !.receiverId[transactionId] = transactionData.receiverId,
                   !.amount[transactionId] = transactionData.amount,
                   !.currency[transactionId] = transactionData.currency,
                   !.deviceId[transactionId] = transactionData.deviceId],
         transactionId, transactionData.senderId, transactionData.receiverId)

\* transactionData.senderId || (await this.getCurrentSenderId(transactionId, tx))
SenderOrCurrent(g, transactionId, transactionData) ==
  IF transactionData.senderId # Null THEN transactionData.senderId
  ELSE g.senderId[transactionId]

ReceiverOrCurrent(g, transactionId, transactionData) ==
  IF transactionData.receiverId # Null THEN transactionData.receiverId
  ELSE g.receiverId[transactionId]

\* SET t.amount = $amount, ... with amount: transactionData.amount ?? null, ... :
\* every scalar is overwritten, by null when the payload leaves it out.
SetTransactionProps(g, transactionId, transactionData) ==
  [g EXCEPT !.senderId[transactionId] = SenderOrCurrent(g, transactionId, transactionData),
            !.receiverId[transactionId] = ReceiverOrCurrent(g, transactionId, transactionData),
            !.amount[transactionId] = transactionData.amount,
            !.currency[transactionId] = transactionData.currency,
            !.deviceId[transactionId] = transactionData.deviceId]

\* DETACH DELETE of the DeviceInfo / Geolocation / PaymentType satellites
DeleteRelatedEntities(g, transactionId) ==
  [g EXCEPT !.deviceIp[transactionId] = NoDevice]

createRelatedEntities(g, transactionId, transactionData) ==
  IF transactionData.deviceInfo # NoDevice
  THEN [g EXCEPT !.deviceIp[transactionId] = transactionData.deviceInfo]
  ELSE g

\* MATCH (t {id})-[r:SHARED_IP|SHARED_DEVICE]->() DELETE r : a directed pattern
DeleteOutgoingSharedTx(g, transactionId) ==
  [g EXCEPT !.sharedTx = [k \in TxRelKinds |->
     [g.sharedTx[k] EXCEPT ![transactionId] = [b \in TxIds |-> 0]]]]

\* MATCH (t {id})-[r:SHARED_IP|SHARED_DEVICE]-() DELETE r : both directions.
DeleteSharedTx(g, transactionId) ==
  [g EXCEPT !.sharedTx = [k \in TxRelKinds |-> [a \in TxIds |-> [b \in TxIds |->
     IF a = transactionId \/ b = transactionId THEN 0 ELSE g.sharedTx[k][a][b]]]]]

\* MERGE (t1)-[:kind]-(t2) for each t2 of matches: an edge t1->t2 is created
\* only where none joins the two in either direction.
MergeTxEdges(g, kind, transactionId, matches) ==
  [g EXCEPT !.sharedTx[kind][transactionId] = [t2 \in TxIds |->
     IF /\ t2 \in matches
        /\ g.sharedTx[kind][transactionId][t2] + g.sharedTx[kind][t2][transactionId] = 0
     THEN 1 ELSE g.sharedTx[kind][transactionId][t2]]]

SharedIpMatches(g, transactionId, transactionData) ==
  IF g.deviceIp[transactionId] = NoDevice THEN {}
  ELSE {t2 \in g.txs : t2 # transactionId /\ g.deviceIp[t2] = transactionData.deviceInfo}

SharedDeviceMatches(g, transactionId, transactionData) ==
  {t2 \in g.txs : t2 # transactionId /\ g.deviceId[t2] = transactionData.deviceId}

createSharedTxRelationships(g, transactionId, transactionData) ==
  LET g1 == IF transactionData.deviceInfo \notin {NoDevice, Null}
            THEN MergeTxEdges(g, "SHARED_IP", transactionId,
                              SharedIpMatches(g, transactionId, transactionData))
            ELSE g
      g2 == IF transactionData.deviceId # Null
            THEN MergeTxEdges(g1, "SHARED_DEVICE", transactionId,
                              SharedDeviceMatches(g1, transactionId, transactionData))
            ELSE g1
  IN g2

\* The uncommitted graph of the create path after its first n writes.
TransactionCreateWork(g, transactionId, transactionData, n) ==
  LET g1 == IF n >= 1 THEN CreateTransactionNode(g, transactionId, transactionData) ELSE g
      g2 == IF n >= 2 THEN createRelatedEntities(g1, transactionId, transactionData) ELSE g1
      g3 == IF n >= 3 THEN createSharedTxRelationships(g2, transactionId, transactionData) ELSE g2
  IN g3

\* Is the payer/payee linkage re-pointed?
Repoints(transactionData) ==
  transactionData.senderId # Null \/ transactionData.receiverId # Null

\* The uncommitted graph of updateExistingTransaction after its first n writes.
updateExistingTransaction(g, transactionId, transactionData, n) ==
  LET g1 == IF n >= 1 /\ Repoints(transactionData)
            THEN DeleteLinkage(g, transactionId) ELSE g
      g2 == IF n >= 2 /\ Repoints(transactionData)
            THEN CreateLinkage(g1, transactionId,
                               SenderOrCurrent(g1, transactionId, transactionData),
                               ReceiverOrCurrent(g1, transactionId, transactionData))
            ELSE g1
      g3 == IF n >= 3 THEN SetTransactionProps(g2, transactionId, transactionData) ELSE g2
      g4 == IF n >= 4 THEN DeleteRelatedEntities(g3, transactionId) ELSE g3
      g5 == IF n >= 5 THEN DeleteSharedTx(g4, transactionId) ELSE g4
      g6 == IF n >= 6 THEN createRelatedEntities(g5, transactionId, transactionData) ELSE g5
      g7 == IF n >= 7 THEN createSharedTxRelationships(g6, transactionId, transactionData) ELSE g6
  IN g7

\* The checks of the create path, in the order of the code: "none" when all pass.
CreateValidation(g, transactionData) ==
  IF transactionData.senderId \notin g.users THEN "404"
  ELSE IF transactionData.receiverId \notin g.users THEN "404"
  ELSE IF transactionData.senderId = transactionData.receiverId THEN "400"
  ELSE "none"

\* The checks at the head of updateExistingTransaction: only supplied ids are looked at.
UpdateValidation(g, transactionData) ==
  IF transactionData.senderId # Null /\ transactionData.senderId \notin g.users THEN "404"
  ELSE IF transactionData.receiverId # Null /\ transactionData.receiverId \notin g.users
       THEN "404"
  ELSE IF /\ transactionData.senderId # Null
          /\ transactionData.receiverId # Null
          /\ transactionData.senderId = transactionData.receiverId THEN "400"
  ELSE "none"

Applied(r, transactionData) ==
  [r EXCEPT !.last.sender = transactionData.senderId,
            !.last.receiver = transactionData.receiverId]

\* TransactionModel.upsert.  fail: 1 the existence query (update) or the sender
\* lookup (create), 2 a later User lookup; from 3 on the writes in order, the
\* read-back of the device info and tx.commit().
TransactionUpsert(g, transactionData, fail) ==
  IF transactionData.id # NoId
  THEN IF fail = 1
       THEN Failed("upsertTransaction", g, g, transactionData.id, "storage")
       ELSE IF transactionData.id \notin g.txs
            THEN Failed("upsertTransaction", g, g, transactionData.id, "404")
       ELSE IF fail = 2 /\ Repoints(transactionData)
            THEN Failed("upsertTransaction", g, g, transactionData.id, "storage")
       ELSE IF UpdateValidation(g, transactionData) # "none"
            THEN Failed("upsertTransaction", g, g, transactionData.id,
                        UpdateValidation(g, transactionData))
       ELSE IF fail \in 3..11
            THEN Failed("upsertTransaction", g,
                        updateExistingTransaction(g, transactionData.id, transactionData,
                                                  IF fail - 3 > 7 THEN 7 ELSE fail - 3),
                        transactionData.id, "storage")
       ELSE Applied(Succeeded("upsertTransaction", g,
                      updateExistingTransaction(g, transactionData.id, transactionData, 7),
                      transactionData.id, transactionData.id, FALSE), transactionData)
  ELSE LET newId == NewTransactionId(g)
       IN IF fail \in 1..2
          THEN Failed("upsertTransaction", g, g, NoId, "storage")
          ELSE IF CreateValidation(g, transactionData) # "none"
          THEN Failed("upsertTransaction", g, g, NoId, CreateValidation(g, transactionData))
          ELSE IF fail \in 3..7
          THEN Failed("upsertTransaction", g,
                      TransactionCreateWork(g, newId, transactionData,
                                            IF fail - 3 > 3 THEN 3 ELSE fail - 3),
                      NoId, "storage")
          ELSE Applied(Succeeded("upsertTransaction", g,
                         TransactionCreateWork(g, newId, transactionData, 3),
                         NoId, newId, TRUE), transactionData)

(* ------------------------------------------------- POST /transactions *)
\* z.number() with no sign check
TransactionSchemaAnyAmount(body) ==
  /\ body.senderId # Null /\ body.receiverId # Null
  /\ body.amount # NullAmount
  /\ body.currency # Null /\ body.currency # ""

\* TransactionSchema.safeParse(req.body).success: senderId and receiverId are
\* required, amount is a positive number, currency a string of length >= 1
\* (transactionType and status are taken as present and valid).
TransactionSchemaAccepts(body) ==
  /\ body.senderId # Null /\ body.receiverId # Null
  /\ body.amount # NullAmount /\ body.amount > 0
  /\ body.currency # Null /\ body.currency # ""

\* validateRequest answers 400 'Validation failed' and does not call next():
\* no session is opened and nothing is written.
ValidationFailed(g, body) ==
  [ db |-> g,
    last |-> [ op |-> "validateRequest", id |-> body.id, status |-> "error",
               code |-> "400", inner |-> "validation", isNew |-> FALSE,
               entity |-> Null, tx |-> "none", errors |-> 1,
               sender |-> body.senderId, receiver |-> body.receiverId ] ]

\* router.post('/', validateRequest(TransactionSchema), handleTransaction)
handleTransaction(g, body) ==
  IF TransactionSchemaAccepts(body)
  THEN TransactionUpsert(g, body, 0)
  ELSE ValidationFailed(g, body)

(* -------------------------------------------------------------- queries *)
RECURSIVE SumOver(_, _)
SumOver(f, S) ==
  IF S = {} THEN 0
  ELSE LET x == CHOOSE y \in S : TRUE IN f[x] + SumOver(f, S \ {x})

\* the (u)-[r:SHARED_*]->(other) half of the pattern alone
OutgoingRelationshipCount(g, userId, kind, other) ==
  IF userId \in g.users /\ other \in g.users
  THEN g.shared[kind][userId][other]
  ELSE 0

\* UserModel.getUserConnections, directRelationships: the number of entries of
\* the given kind that list other; one per SHARED_* edge touching userId, in
\* either direction (undirected pattern).
DirectRelationshipCount(g, userId, kind, other) ==
  IF userId \in g.users /\ other \in g.users
  THEN g.shared[kind][userId][other] + g.shared[kind][other][userId]
  ELSE 0

\* UserModel.getUserConnections, sentTransactions: the rows of
\* (currentUser)-[:SENT]->(tx)-[:RECEIVED_BY]->(receiver) for the transfer.
SentTransactionCount(g, userId, transactionId) ==
  IF userId \in g.users
  THEN g.sent[userId][transactionId] * SumOver(g.receivedBy[transactionId], g.users)
  ELSE 0

\* receivedTransactions: the rows of (sender)-[:SENT]->(tx)-[:RECEIVED_BY]->(currentUser).
ReceivedTransactionCount(g, userId, transactionId) ==
  IF userId \in g.users
  THEN SumOver([u \in UserIds |-> g.sent[u][transactionId]], g.users)
         * g.receivedBy[transactionId][userId]
  ELSE 0

\* UserModel.getUserConnections, transactionRelationships: count(tx2) of the
\* entry of the given kind that lists relatedUser (0: no entry); the rows of
\* (currentUser)-[:SENT|:RECEIVED_BY]->(tx1)-[r:kind]->(tx2),
\* (tx2)-[:SENT|:RECEIVED_BY]->(relatedUser), every arrow as written.  Only SENT
\* leaves a User and only RECEIVED_BY leaves a Transaction.
SharedTransactionRelationshipCount(g, userId, kind, relatedUser) ==
  IF userId \in g.users /\ relatedUser \in g.users /\ relatedUser # userId
  THEN SumOver([tx1 \in TxIds |->
         g.sent[userId][tx1]
           * SumOver([tx2 \in TxIds |->
               g.sharedTx[kind][tx1][tx2] * g.receivedBy[tx2][relatedUser]], g.txs)],
         g.txs)
  ELSE 0

\* TransactionModel.getTransactionConnections: the rows of
\* (sender)-[:SENT]->(t {id})-[:RECEIVED_BY]->(receiver); none is a 404.
TransactionConnectionsStatus(g, transactionId) ==
  IF /\ transactionId \in g.txs
     /\ SumOver([u \in UserIds |-> g.sent[u][transactionId]], g.users)
          * SumOver(g.receivedBy[transactionId], g.users) > 0
  THEN "ok" ELSE "404"

\* sharedDeviceTransactions: the entries that list other; one per SHARED_DEVICE
\* edge touching the Transfer, which must store a device id.
SharedDeviceTransactionCount(g, transactionId, other) ==
  IF /\ TransactionConnectionsStatus(g, transactionId) = "ok"
     /\ g.deviceId[transactionId] # Null /\ other \in g.txs
  THEN g.sharedTx["SHARED_DEVICE"][transactionId][other]
         + g.sharedTx["SHARED_DEVICE"][other][transactionId]
  ELSE 0

\* sharedIPTransactions: the entries that list other; one per SHARED_IP edge
\* touching the Transfer, which must own a DeviceInfo.
SharedIPTransactionCount(g, transactionId, other) ==
  IF /\ TransactionConnectionsStatus(g, transactionId) = "ok"
     /\ g.deviceIp[transactionId] # NoDevice /\ other \in g.txs
  THEN g.sharedTx["SHARED_IP"][transactionId][other]
         + g.sharedTx["SHARED_IP"][other][transactionId]
  ELSE 0

\* a getUserConnections that looks the User up first
UserConnectionsNotFound(g, userId) == IF userId \in g.users THEN "ok" ELSE "404"

\* UserModel.getUserConnections runs its three queries and maps their records;
\* no query checks that the User exists and no empty result is an error.
UserConnectionsStatus(g, userId) == "ok"

\* UserModel.getUserConnections: the outcome and how many entries each of the
\* four lists holds.
getUserConnections(g, userId) ==
  [ status |-> UserConnectionsStatus(g, userId),
    directRelationships |->
      SumOver([k \in UserRelKinds |->
                 SumOver([u \in UserIds |-> DirectRelationshipCount(g, userId, k, u)],
                         UserIds)], UserRelKinds),
    transactionRelationships |->
      Cardinality({e \in TxRelKinds \X UserIds :
                     SharedTransactionRelationshipCount(g, userId, e[1], e[2]) > 0}),
    sentTransactions |->
      SumOver([t \in TxIds |-> SentTransactionCount(g, userId, t)], TxIds),
    receivedTransactions |->
      SumOver([t \in TxIds |-> ReceivedTransactionCount(g, userId, t)], TxIds) ]

(* ------------------------------- UserModel.findShortestPathBetweenUsers *)
Range(seq) == {seq[i] : i \in 1..Len(seq)}

\* The stored SENT / RECEIVED_BY relationships, each with the ids of its start
\* and end node.
PathRelationships(g) ==
  {[type |-> "SENT", start |-> u, end |-> t] :
     <<u, t>> \in {e \in g.users \X g.txs : g.sent[e[1]][e[2]] > 0}}
  \cup
  {[type |-> "RECEIVED_BY", start |-> t, end |-> u] :
     <<t, u>> \in {e \in g.txs \X g.users : g.receivedBy[e[1]][e[2]] > 0}}

\* The stored derived relationships of every SHARED_* type.
SharedRelationships(g) ==
  {[type |-> k, start |-> a, end |-> b] :
     <<k, a, b>> \in {e \in UserRelKinds \X g.users \X g.users : g.shared[e[1]][e[2]][e[3]] > 0}}
  \cup
  {[type |-> k, start |-> a, end |-> b] :
     <<k, a, b>> \in {e \in TxRelKinds \X g.txs \X g.txs : g.sharedTx[e[1]][e[2]][e[3]] > 0}}

\* a pattern (u1)-[*]-(u2) with no relationship types
AnyRelationships(g) == PathRelationships(g) \cup SharedRelationships(g)

\* The relationships the pattern -[:SENT|RECEIVED_BY*]- may traverse.
TraversableRelationships(g) == PathRelationships(g)

\* The relationships of rels joining x and y, whatever their direction.
RelationshipsBetween(rels, x, y) ==
  {r \in rels : (r.start = x /\ r.end = y) \/ (r.start = y /\ r.end = x)}

\* The node sequences of the paths over rels that extend nodes, without a
\* repeated node, up to target.
RECURSIVE PathsFrom(_, _, _)
PathsFrom(rels, nodes, target) ==
  IF nodes[Len(nodes)] = target THEN {nodes}
  ELSE LET x == nodes[Len(nodes)]
           next == ({r.end : r \in {q \in rels : q.start = x}}
                      \cup {r.start : r \in {q \in rels : q.end = x}}) \ Range(nodes)
       IN UNION {PathsFrom(rels, Append(nodes, y), target) : y \in next}

\* relationships(path): one relationship of rels for each step of the node
\* sequence, in traversal order.
RECURSIVE RelationshipsAlong(_, _)
RelationshipsAlong(rels, nodes) ==
  IF Len(nodes) <= 1 THEN {<<>>}
  ELSE {<<r>> \o rest : r \in RelationshipsBetween(rels, nodes[1], nodes[2]),
                         rest \in RelationshipsAlong(rels, Tail(nodes))}

\* a node list collected from the end of the path
NodesFromEnd(nodes) == [i \in 1..Len(nodes) |-> nodes[Len(nodes) + 1 - i]]

\* UNWIND nodes(path) AS node ... collect(distinct node): the nodes of the
\* path in path order, from u1 to u2.
NodesInPathOrder(nodes) == nodes

\* shortestPath((u1)-[:SENT|RECEIVED_BY*]-(u2)): the paths of least length
\* (the store returns one of them), each as the node sequence from u1 to u2
\* and the relationship sequence in traversal order, which is the order
\* collect(distinct ...) lists them in.
ShortestPathRows(g, userId1, userId2) ==
  LET rels == TraversableRelationships(g)
      all == PathsFrom(rels, <<userId1>>, userId2)
      least == {n \in all : \A m \in all : Len(n) <= Len(m)}
  IN UNION {{[nodes |-> NodesInPathOrder(n), relationships |-> raw,
              pathLength |-> Len(n) - 1] :
               raw \in RelationshipsAlong(rels, n)} :
            n \in least}

\* node.labels.includes('User') ? 'User' : 'Transaction'
NodeType(g, id) == IF id \in g.users THEN "User" ELSE "Transaction"

\* what the map callback returns for a relationship it drops
DroppedRelationship == [type |-> Null, startNodeId |-> Null, endNodeId |-> Null]

\* a direction correction that reports the relationship as it is stored
StoredDirection(g, rel, nodes, index) ==
  [type |-> rel.type, startNodeId |-> rel.start, endNodeId |-> rel.end]

\* a direction correction that keeps only the relationships stored along
\* the traversal
ForwardOnly(g, rel, nodes, index) ==
  IF rel.start = nodes[index] /\ rel.end = nodes[index + 1]
  THEN [type |-> rel.type, startNodeId |-> rel.start, endNodeId |-> rel.end]
  ELSE DroppedRelationship

\* The map callback: the index-th raw relationship against the index-th and
\* the next node of the node list.
CorrectDirection(g, rel, nodes, index) ==
  LET expectedStartId == nodes[index]
      expectedEndId == nodes[index + 1]
      startNodeType == NodeType(g, nodes[index])
      endNodeType == NodeType(g, nodes[index + 1])
      isForward == rel.start = expectedStartId /\ rel.end = expectedEndId
      isReversed == rel.start = expectedEndId /\ rel.end = expectedStartId
      finalType == IF isReversed
                   THEN (IF rel.type = "SENT" THEN "RECEIVED_BY" ELSE "SENT")
                   ELSE rel.type
      finalStartNodeId == IF isReversed THEN rel.end ELSE rel.start
      finalEndNodeId == IF isReversed THEN rel.start ELSE rel.end
  IN IF ~isForward /\ ~isReversed THEN DroppedRelationship
     ELSE IF finalType = "SENT"
             /\ (startNodeType # "User" \/ endNodeType # "Transaction")
     THEN DroppedRelationship
     ELSE IF finalType = "RECEIVED_BY"
             /\ (startNodeType # "Transaction" \/ endNodeType # "User")
     THEN DroppedRelationship
     ELSE [type |-> finalType, startNodeId |-> finalStartNodeId,
           endNodeId |-> finalEndNodeId]

\* relationshipsRaw.filter(...).map(...).filter(rel => rel !== null)
ProcessRelationships(g, nodes, relationshipsRaw) ==
  SelectSeq([index \in 1..Len(relationshipsRaw) |->
               CorrectDirection(g, relationshipsRaw[index], nodes, index)],
            LAMBDA rel : rel # DroppedRelationship)

\* a result returned without comparing the counts
NoLengthCheck(relationships, pathLength) == FALSE

\* if (relationships.length !== pathLength) throw new AppError(..., 500)
LengthMismatch(relationships, pathLength) == Len(relationships) # pathLength

\* a catch that wraps whatever it caught as an internal error
RewrappedPathStatus(thrown) == "500"

\* catch (error) { if (error instanceof AppError) throw error; ... }: an
\* AppError thrown inside the method reaches the caller with its own status.
SurfacedPathStatus(thrown) == thrown

\* throw new AppError(..., status) inside the method's try block.
PathError(status) ==
  [status |-> SurfacedPathStatus(status), nodes |-> <<>>, relationships |-> <<>>,
   length |-> 0]

\* What the method makes of one row of the query.
PathResult(g, row) ==
  LET relationships == ProcessRelationships(g, row.nodes, row.relationships)
  IN IF LengthMismatch(relationships, row.pathLength) THEN PathError("500")
     ELSE [status |-> "ok", nodes |-> row.nodes, relationships |-> relationships,
           length |-> row.pathLength]

\* a path query without its WHERE clause
NoPathPredicate(userId1, userId2) == TRUE

\* WHERE u1 <> u2
PathPredicate(userId1, userId2) == userId1 # userId2

\* The outcomes of findShortestPathBetweenUsers(userId1, userId2): a set,
\* for the store is free to return any of the shortest paths.  With
\* userId1 = userId2 the store either rejects shortestPath on a common node
\* (surfaced as 500) or WHERE u1 <> u2 leaves no row (404).
findShortestPathBetweenUsers(g, userId1, userId2) ==
  IF userId1 \notin g.users \/ userId2 \notin g.users THEN {PathError("404")}
  ELSE LET rows == IF PathPredicate(userId1, userId2)
                   THEN ShortestPathRows(g, userId1, userId2) ELSE {}
           answers == IF rows = {} THEN {PathError("404")}
                      ELSE {PathResult(g, row) : row \in rows}
       IN IF userId1 = userId2 THEN answers \cup {PathError("500")} ELSE answers

(* ---------------------------------------------------------- specification *)
\* A caller outside every operation.
Idle == [pc |-> "idle", op |-> "none", id |-> NoId, email |-> Null,
         rows |-> [u2 \in UserIds |-> 0], userId1 |-> NoId, userId2 |-> NoId]

Init ==
  /\ db = EmptyGraph
  /\ last = [ op |-> "none", id |-> NoId, status |-> "ok", code |-> "none",
              inner |-> "none", isNew |-> FALSE, entity |-> Null,
              tx |-> "none", errors |-> 0, sender |-> Null, receiver |-> Null ]
  /\ sessions = 0
  /\ inflight = [c \in Callers |-> Idle]

\* POST /users: one call of UserModel.upsert.  A create needs an id the pool
\* still holds.
UpsertUser(userData, fail) ==
  /\ userData.id = NoId => db.users # UserIds
  /\ LET r == UserUpsert(db, userData, fail)
     IN /\ db' = r.db
        /\ last' = r.last
        /\ sessions' = SessionsAfter(sessions, r.last)
        /\ UNCHANGED inflight

\* POST /transactions: one call of TransactionModel.upsert.  The required
\* fields of ITransaction are present in a create.
UpsertTransaction(transactionData, fail) ==
  /\ transactionData.id = NoId =>
       /\ db.txs # TxIds
       /\ transactionData.senderId # Null
       /\ transactionData.receiverId # Null
  /\ LET r == TransactionUpsert(db, transactionData, fail)
     IN /\ db' = r.db
        /\ last' = r.last
        /\ sessions' = SessionsAfter(sessions, r.last)
        /\ UNCHANGED inflight

\* POST /transactions with any body: the validation middleware, then the
\* controller and TransactionModel.upsert.
PostTransaction(body) ==
  /\ body.id = NoId => db.txs # TxIds
  /\ LET r == handleTransaction(db, body)
     IN /\ db' = r.db
        /\ last' = r.last
        /\ sessions' = SessionsAfter(sessions, r.last)
        /\ UNCHANGED inflight

\* A create is issued only while fewer than n Persons exist.
CreatesWithin(userData, n) ==
  userData.id = NoId => Cardinality(db.users) < n

\* A create is issued only while fewer than n Transfers exist.
TransfersWithin(transactionData, n) ==
  transactionData.id = NoId => Cardinality(db.txs) < n

\* Where a storage call (tx.run / tx.commit) can throw; 0: none does.
UserFailPoints == 0..7
TransactionFailPoints == 0..11
NoFault == {0}

\* Full Person payloads (every group present).
FullUserPayloads ==
  {d \in UserPayloads : /\ d.email = "a@x.io" /\ d.phone # Null
                        /\ d.address # NoAddress /\ d.paymentMethods = {"pm1"}}

\* Person payloads that vary the contact attributes only.
ContactPayloads ==
  {d \in UserPayloads : d.address = NoAddress /\ d.paymentMethods = {}}

\* Person payloads that vary the optional groups (one email for all).
PersonPayloads ==
  {d \in UserPayloads : /\ d.email = "a@x.io" /\ d.id # GhostId
                        /\ d.paymentMethods # {"pm2"}}

\* Transfer payloads that vary the payer/payee linkage only.
LinkagePayloads ==
  {d \in TransactionPayloads : /\ d.deviceId = "dev1" /\ d.deviceInfo = "10.0.0.1"
                               /\ d.amount = 5 /\ d.currency = "USD"}

\* Transfer payloads between two fixed Persons.
FixedPartyPayloads ==
  {d \in LinkagePayloads : /\ d.id # GhostId
                           /\ d.senderId \in {"u1", Null}
                           /\ d.receiverId \in {"u2", Null}}

\* The upsert coordinator of both entity kinds; no storage faults.
Next ==
  \/ \E userData \in FullUserPayloads, fail \in NoFault :
       CreatesWithin(userData, PairOfUsers) /\ UpsertUser(userData, fail)
  \/ \E transactionData \in LinkagePayloads, fail \in NoFault :
       TransfersWithin(transactionData, PairOfTransfers)
         /\ UpsertTransaction(transactionData, fail)

Spec == Init /\ [][Next]_vars

\* The upsert coordinator with a storage call that may throw anywhere.
NextFaults ==
  \/ \E userData \in FullUserPayloads, fail \in UserFailPoints :
       CreatesWithin(userData, PairOfUsers) /\ UpsertUser(userData, fail)
  \/ \E transactionData \in FixedPartyPayloads, fail \in TransactionFailPoints :
       TransfersWithin(transactionData, PairOfTransfers)
         /\ UpsertTransaction(transactionData, fail)

SpecFaults == Init /\ [][NextFaults]_vars

\* Persons whose email and phone change; no storage faults.
NextContacts ==
  \E userData \in ContactPayloads, fail \in NoFault :
       CreatesWithin(userData, PairOfUsers) /\ UpsertUser(userData, fail)

SpecContacts == Init /\ [][NextContacts]_vars

\* Persons with every optional group present or absent; no storage faults.
NextPersons ==
  \E userData \in PersonPayloads, fail \in NoFault :
       CreatesWithin(userData, PairOfUsers) /\ UpsertUser(userData, fail)

SpecPersons == Init /\ [][NextPersons]_vars

\* Transfer payloads from u1 to u2 that vary the device id and the deviceInfo
\* group (every field the route requires is present).
DevicePayloads ==
  {d \in TransactionPayloads : /\ d.id # GhostId
                               /\ d.senderId = "u1" /\ d.receiverId = "u2"
                               /\ d.amount = 5 /\ d.currency = "USD"}

\* Person payloads of a create.
NewPersonPayloads == {d \in FullUserPayloads : d.id = NoId}

\* Two Persons and Transfers between them whose device attributes change.
NextDevices ==
  \/ \E userData \in NewPersonPayloads, fail \in NoFault :
       CreatesWithin(userData, PairOfUsers) /\ UpsertUser(userData, fail)
  \/ \E transactionData \in DevicePayloads, fail \in NoFault :
       TransfersWithin(transactionData, PairOfTransfers)
         /\ UpsertTransaction(transactionData, fail)

SpecDevices == Init /\ [][NextDevices]_vars

\* Request bodies of POST /transactions, well-formed or not, from u1 to u2,
\* with or without a device id.
RouteBodies ==
  {d \in TransactionPayloads : /\ d.id # GhostId
                               /\ d.senderId \in {"u1", Null}
                               /\ d.receiverId \in {"u2", Null}
                               /\ d.deviceId \in {"dev1", Null}
                               /\ d.deviceInfo = NoDevice}

\* The service seen from its routes: Persons are created, Transfers posted.
NextRoutes ==
  \/ \E userData \in NewPersonPayloads, fail \in NoFault :
       CreatesWithin(userData, PairOfUsers) /\ UpsertUser(userData, fail)
  \/ \E body \in RouteBodies :
       TransfersWithin(body, PairOfTransfers) /\ PostTransaction(body)

SpecRoutes == Init /\ [][NextRoutes]_vars

\* Transfer payloads between any two Persons, all from one device and IP.
PathPayloads ==
  {d \in LinkagePayloads : /\ d.id # GhostId
                           /\ d.senderId \in UserIds /\ d.receiverId \in UserIds}

\* Persons and the Transfers that chain them.
NextPaths ==
  \/ \E userData \in NewPersonPayloads, fail \in NoFault :
       UpsertUser(userData, fail)
  \/ \E transactionData \in PathPayloads, fail \in NoFault :
       UpsertTransaction(transactionData, fail)

SpecPaths == Init /\ [][NextPaths]_vars

\* Transfer payloads of any two Persons, or of one side only (an update that
\* re-points the payer or the payee alone).
AnyPartyPayloads ==
  {d \in LinkagePayloads : /\ d.id # GhostId
                           /\ d.senderId \in UserIds \cup {Null}
                           /\ d.receiverId \in UserIds \cup {Null}}

\* Persons and Transfers upserted in every way the model methods accept.
NextAnyPaths ==
  \/ \E userData \in NewPersonPayloads, fail \in NoFault :
       UpsertUser(userData, fail)
  \/ \E transactionData \in AnyPartyPayloads, fail \in NoFault :
       TransfersWithin(transactionData, PairOfTransfers)
         /\ UpsertTransaction(transactionData, fail)

SpecAnyPaths == Init /\ [][NextAnyPaths]_vars

\* What a connections query answers: the outcome and the number of entries
\* in the lists it returns (none when it throws).
Connections(op, suppliedId, status, entries) ==
  [ op |-> op, id |-> suppliedId, status |-> IF status = "ok" THEN "ok" ELSE "error",
    code |-> IF status = "ok" THEN "none" ELSE status, tx |-> "none",
    entries |-> IF status = "ok" THEN entries ELSE 0 ]

\* GET connections of a Person: UserModel.getUserConnections; catch turns any
\* error into a 500, finally closes the session.
GetUserConnections(userId) ==
  /\ LET r == getUserConnections(db, userId)
     IN last' = Connections("getUserConnections", userId, r.status,
                            r.directRelationships + r.transactionRelationships
                              + r.sentTransactions + r.receivedTransactions)
  /\ sessions' = SessionsAfter(sessions, last')
  /\ UNCHANGED <<db, inflight>>

\* GET connections of a Transfer: TransactionModel.getTransactionConnections;
\* the 404 is rethrown as it is, finally closes the session.
GetTransactionConnections(transactionId) ==
  /\ last' = Connections("getTransactionConnections", transactionId,
                         TransactionConnectionsStatus(db, transactionId),
                         SumOver([t \in TxIds |->
                                    SharedDeviceTransactionCount(db, transactionId, t)
                                      + SharedIPTransactionCount(db, transactionId, t)],
                                 TxIds))
  /\ sessions' = SessionsAfter(sessions, last')
  /\ UNCHANGED <<db, inflight>>

\* Two Persons and the Transfers between them, and the connections queries
\* with ids that name an entity or none.
NextConnections ==
  \/ \E userData \in NewPersonPayloads, fail \in NoFault :
       CreatesWithin(userData, PairOfUsers) /\ UpsertUser(userData, fail)
  \/ \E transactionData \in DevicePayloads, fail \in NoFault :
       TransfersWithin(transactionData, PairOfTransfers)
         /\ UpsertTransaction(transactionData, fail)
  \/ \E userId \in UserIds \cup {GhostId} : GetUserConnections(userId)
  \/ \E transactionId \in TxIds \cup {GhostId} : GetTransactionConnections(transactionId)

SpecConnections == Init /\ [][NextConnections]_vars

(* ------------------------------------------------------ concurrent callers *)
\* The payload of a create that carries an email and no optional group: the
\* create path then issues the CREATE of the node and the SHARED_EMAIL query,
\* and nothing else, before it commits.
EmailOnly(email) ==
  [id |-> NoId, email |-> email, phone |-> Null, address |-> NoAddress,
   paymentMethods |-> {}]

\* The callers whose transaction has created a User it has not committed.
Creating == {c \in Callers : inflight[c].pc \in {"created", "scanned"}}

UncommittedUsers == {inflight[c].id : c \in Creating}

\* a store whose reads see the uncommitted nodes of every open transaction
ReadUncommitted(c) ==
  [db EXCEPT !.users = @ \cup UncommittedUsers,
             !.email = [u \in UserIds |->
                          IF \E o \in Creating : inflight[o].id = u
                          THEN inflight[CHOOSE o \in Creating : inflight[o].id = u].email
                          ELSE db.email[u]]]

\* What a statement of caller c's transaction reads: the committed graph and
\* the transaction's own writes.
ReadCommitted(c) ==
  CreateUserNode(db, inflight[c].id, EmailOnly(inflight[c].email))

\* What a query answers to its caller (no write transaction is involved).
Answered(op, suppliedId, status) ==
  [ op |-> op, id |-> suppliedId, status |-> IF status = "ok" THEN "ok" ELSE "error",
    code |-> IF status = "ok" THEN "none" ELSE status,
    inner |-> IF status = "ok" THEN "none" ELSE status,
    isNew |-> FALSE, entity |-> Null, tx |-> "none",
    errors |-> IF status = "ok" THEN 0 ELSE 1, sender |-> Null, receiver |-> Null ]

\* UserModel.upsert without an id, up to session.beginTransaction().
BeginUpsert(c, email) ==
  /\ inflight[c].pc = "idle"
  /\ Cardinality(db.users)
       + Cardinality({o \in Callers : inflight[o].op = "upsertUser"}) < PairOfUsers
  /\ sessions' = GetSession(sessions)
  /\ inflight' = [inflight EXCEPT ![c] =
                    [Idle EXCEPT !.pc = "begun", !.op = "upsertUser", !.email = email]]
  /\ UNCHANGED <<db, last>>

\* CREATE (u:User {id: randomUUID(), ...}) inside the caller's transaction.
CreateUser(c) ==
  /\ inflight[c].pc = "begun"
  /\ inflight' = [inflight EXCEPT ![c].pc = "created",
                                  ![c].id = NewUserId([db EXCEPT !.users =
                                                         @ \cup UncommittedUsers])]
  /\ UNCHANGED <<db, last, sessions>>

\* createSharedRelationships: the SHARED_EMAIL query of the caller's
\* transaction; its rows become edges when the transaction commits.
ScanSharedEmail(c) ==
  /\ inflight[c].pc = "created"
  /\ inflight' = [inflight EXCEPT ![c].pc = "scanned",
                                  ![c].rows = SharedEmailRows(ReadCommitted(c),
                                                              inflight[c].id,
                                                              EmailOnly(inflight[c].email))]
  /\ UNCHANGED <<db, last, sessions>>

\* await tx.commit(); return { user, isNew: true }; finally closes the session.
CommitUpsert(c) ==
  /\ inflight[c].pc = "scanned"
  /\ LET userId == inflight[c].id
         working == AddUserEdges(CreateUserNode(db, userId, EmailOnly(inflight[c].email)),
                                 "SHARED_EMAIL", userId, inflight[c].rows)
         r == Succeeded("upsertUser", db, working, NoId, userId, TRUE)
     IN /\ db' = r.db
        /\ last' = r.last
  /\ sessions' = CloseSession(sessions)
  /\ inflight' = [inflight EXCEPT ![c] = Idle]

\* A storage call of the create path throws: catch rolls the transaction
\* back and rethrows, finally closes the session.
AbortUpsert(c) ==
  /\ inflight[c].pc \in {"begun", "created", "scanned"}
  /\ LET r == Failed("upsertUser", db, db, NoId, "storage")
     IN /\ db' = r.db
        /\ last' = r.last
  /\ sessions' = CloseSession(sessions)
  /\ inflight' = [inflight EXCEPT ![c] = Idle]

\* findShortestPathBetweenUsers up to getSession().
BeginPathQuery(c, userId1, userId2) ==
  /\ inflight[c].pc = "idle"
  /\ sessions' = GetSession(sessions)
  /\ inflight' = [inflight EXCEPT ![c] =
                    [Idle EXCEPT !.pc = "query", !.op = "findShortestPath",
                                 !.userId1 = userId1, !.userId2 = userId2]]
  /\ UNCHANGED <<db, last>>

\* The query that verifies both users exist; when it has no record the 404 is
\* thrown, rethrown by catch, and finally closes the session.
CheckPathUsers(c) ==
  /\ inflight[c].pc = "query"
  /\ IF inflight[c].userId1 \in db.users /\ inflight[c].userId2 \in db.users
     THEN /\ inflight' = [inflight EXCEPT ![c].pc = "checked"]
          /\ UNCHANGED <<last, sessions>>
     ELSE /\ last' = Answered("findShortestPath", inflight[c].userId1,
                              PathError("404").status)
          /\ sessions' = CloseSession(sessions)
          /\ inflight' = [inflight EXCEPT ![c] = Idle]
  /\ UNCHANGED db

\* The path query and what follows it; the result is returned or the error
\* thrown, and finally closes the session.
FinishPathQuery(c) ==
  /\ inflight[c].pc = "checked"
  /\ \E answer \in findShortestPathBetweenUsers(db, inflight[c].userId1,
                                                inflight[c].userId2) :
       last' = Answered("findShortestPath", inflight[c].userId1, answer.status)
  /\ sessions' = CloseSession(sessions)
  /\ inflight' = [inflight EXCEPT ![c] = Idle]
  /\ UNCHANGED db

\* Updates of a Person's email (the id names a Person of the pool).
EmailUpdates ==
  {d \in ContactPayloads : d.id \in UserIds /\ d.phone = Null}

\* Payloads that create the first Transfer of the pool or upsert it again.
FirstTransferPayloads ==
  {d \in FixedPartyPayloads : d.id \in {NoId, TxIdSeq[1]}}

\* Callers that create Persons concurrently, each in its own session and
\* transaction, while Persons are updated, Transfers between the first two
\* Persons are upserted and paths are queried; a storage call of a create
\* may throw.
NextCallers ==
  \/ \E c \in Callers, email \in Emails : BeginUpsert(c, email)
  \/ \E c \in Callers : CreateUser(c)
  \/ \E c \in Callers : ScanSharedEmail(c)
  \/ \E c \in Callers : CommitUpsert(c)
  \/ \E c \in Callers : AbortUpsert(c)
  \/ \E userData \in EmailUpdates, fail \in NoFault : UpsertUser(userData, fail)
  \/ \E transactionData \in FirstTransferPayloads, fail \in NoFault :
       TransfersWithin(transactionData, 1) /\ UpsertTransaction(transactionData, fail)
  \/ \E c \in Callers, userId1 \in {"u1", GhostId}, userId2 \in {"u1", "u2"} :
       BeginPathQuery(c, userId1, userId2)
  \/ \E c \in Callers : CheckPathUsers(c)
  \/ \E c \in Callers : FinishPathQuery(c)

SpecCallers == Init /\ [][NextCallers]_vars

(* ------------------------------------------------------ listing and search *)
\* How many Persons the listed store holds at most.
MaxListed == 25

\* const page = Math.max(Number(req.query.page) || 1, 1)
DefaultPage == 1
\* const limit = Math.max(Number(req.query.limit) || 10, 1)
DefaultLimit == 10
\* limit: z.coerce.number().int().min(1).max(100)
MaxSearchLimit == 100

\* req.query.page / req.query.limit left out of the query string
NoQueryValue == -2

\* What a caller may put in page or limit: nothing, a negative number, zero,
\* small and large positive integers.
QueryValues == {NoQueryValue, -1, 0, 1, 2, 3, 4, 10, 100, 101}

Max(a, b) == IF a >= b THEN a ELSE b
Min(a, b) == IF a <= b THEN a ELSE b

\* Number(q) || d : NaN (nothing supplied) and 0 are falsy.
NumberOr(q, d) == IF q = NoQueryValue \/ q = 0 THEN d ELSE q

\* Math.ceil(total / limit)
Ceil(total, limit) ==
  IF total % limit = 0 THEN total \div limit ELSE total \div limit + 1

\* a has-next test that counts the last page as having a successor
HasNextPageInclusive(offset, limit, totalPages) == offset + limit <= totalPages * limit

\* offset / limit + 1 < totalPages (limit > 0; both sides multiplied by limit)
HasNextPage(offset, limit, totalPages) == offset + limit < totalPages * limit

\* A store that holds n Persons, named by creation rank (their attributes and
\* edges play no part in a listing).
ListedGraph(n) == [EmptyGraph EXCEPT !.users = 1..n]

\* MATCH (u:User) ... ORDER BY u.createdAt DESC
UsersNewestFirst(g) ==
  [i \in 1..Cardinality(g.users) |-> Cardinality(g.users) + 1 - i]

\* SKIP $offset LIMIT $limit
SkipLimit(rows, offset, limit) ==
  SubSeq(rows, offset + 1, Min(offset + limit, Len(rows)))

\* UserModel.getAllUsers(offset, limit)
getAllUsers(g, offset, limit) ==
  LET totalUsers == Cardinality(g.users)
      totalPages == Ceil(totalUsers, limit)
  IN [ users |-> SkipLimit(UsersNewestFirst(g), offset, limit),
       currentPage |-> (offset \div limit) + 1,
       totalPages |-> totalPages,
       total |-> totalUsers,
       hasNextPage |-> HasNextPage(offset, limit, totalPages),
       hasPreviousPage |-> offset > 0 ]

\* UserModel.searchUsers with no search text and no filter: every User
\* matches; page and limit arrive validated (integers, page >= 1, limit >= 1).
searchUsers(g, page, limit) ==
  LET offset == (page - 1) * limit
      totalUsers == Cardinality(g.users)
      totalPages == IF totalUsers > 0 THEN Ceil(totalUsers, limit) ELSE 1
      currentPage == Min(page, totalPages)
  IN [ users |-> SkipLimit(UsersNewestFirst(g), offset, limit),
       currentPage |-> currentPage,
       totalPages |-> totalPages,
       total |-> totalUsers,
       hasNextPage |-> currentPage < totalPages,
       hasPreviousPage |-> currentPage > 1 ]

\* What a list or search request left behind: the page and limit the store
\* was queried with and the page returned.
Listed(op, page, limit, result) ==
  [ op |-> op, status |-> "ok", code |-> "none", tx |-> "none",
    page |-> page, limit |-> limit, result |-> result ]

\* TransactionSearchSchema, page and limit: coerced numbers, integers,
\* page >= 1, 1 <= limit <= 100; a field left out takes its default.
TransactionSearchSchemaAccepts(rawPage, rawLimit) ==
  /\ rawPage = NoQueryValue \/ rawPage >= 1
  /\ rawLimit = NoQueryValue \/ (rawLimit >= 1 /\ rawLimit <= MaxSearchLimit)

\* validateSearchQuery answers 400 and does not call next().
SearchRejected(rawPage, rawLimit) ==
  [ op |-> "validateSearchQuery", status |-> "error", code |-> "400", tx |-> "none",
    page |-> rawPage, limit |-> rawLimit,
    result |-> [ users |-> <<>>, currentPage |-> 0, totalPages |-> 0, total |-> 0,
                 hasNextPage |-> FALSE, hasPreviousPage |-> FALSE ] ]

\* TransactionModel.searchTransactions with no search text and no filter, on a
\* store that holds no Transfer.
searchTransactions(g, page, limit) ==
  LET totalTransactions == Cardinality(g.txs)
      totalPages == IF totalTransactions > 0 THEN Ceil(totalTransactions, limit) ELSE 1
      currentPage == Min(page, totalPages)
  IN [ users |-> <<>>,
       currentPage |-> currentPage,
       totalPages |-> totalPages,
       total |-> totalTransactions,
       hasNextPage |-> currentPage < totalPages,
       hasPreviousPage |-> currentPage > 1 ]

InitListing ==
  /\ \E n \in 0..MaxListed : db = ListedGraph(n)
  /\ last = Listed("none", DefaultPage, DefaultLimit, getAllUsers(EmptyGraph, 0, DefaultLimit))
  /\ sessions = 0
  /\ inflight = [c \in Callers |-> Idle]

\* GET /users: UserController.getAllUsers and UserModel.getAllUsers
\* (GET /transactions computes page, limit and the metadata the same way).
GetAllUsers(rawPage, rawLimit) ==
  /\ LET page == Max(NumberOr(rawPage, DefaultPage), 1)
         limit == Max(NumberOr(rawLimit, DefaultLimit), 1)
         offset == (page - 1) * limit
     IN last' = Listed("getAllUsers", page, limit, getAllUsers(db, offset, limit))
  /\ sessions' = SessionsAfter(sessions, last')
  /\ UNCHANGED <<db, inflight>>

\* UserController.searchUsers with a validated query.
SearchUsers(page, limit) ==
  /\ last' = Listed("searchUsers", page, limit, searchUsers(db, page, limit))
  /\ sessions' = SessionsAfter(sessions, last')
  /\ UNCHANGED <<db, inflight>>

\* GET /transactions/search: validateSearchQuery(TransactionSearchSchema), then
\* TransactionController.searchTransactions.
SearchTransactions(rawPage, rawLimit) ==
  /\ IF TransactionSearchSchemaAccepts(rawPage, rawLimit)
     THEN LET page == IF rawPage = NoQueryValue THEN DefaultPage ELSE rawPage
              limit == IF rawLimit = NoQueryValue THEN DefaultLimit ELSE rawLimit
          IN /\ last' = Listed("searchTransactions", page, limit,
                               searchTransactions(db, page, limit))
             /\ sessions' = SessionsAfter(sessions, last')
     ELSE /\ last' = SearchRejected(rawPage, rawLimit)
          /\ UNCHANGED sessions
  /\ UNCHANGED <<db, inflight>>

\* Validated page and limit values of a search.
SearchPages == {q \in QueryValues : q >= 1 /\ q <= 4}
SearchLimits == {q \in QueryValues : q >= 1 /\ q <= MaxSearchLimit}

\* A store of up to MaxListed Persons that is listed and searched.
NextListing ==
  \/ \E rawPage \in QueryValues, rawLimit \in QueryValues : GetAllUsers(rawPage, rawLimit)
  \/ \E page \in SearchPages, limit \in SearchLimits : SearchUsers(page, limit)
  \/ \E rawPage \in QueryValues, rawLimit \in QueryValues :
       SearchTransactions(rawPage, rawLimit)

SpecListing == InitListing /\ [][NextListing]_vars

(* ------------------------------------------------------------ properties *)
\* A create is issued only while the id pool lasts (see UpsertUser).
UserCallable(g, userData) == userData.id = NoId => g.users # UserIds

TransactionCallable(g, transactionData) ==
  transactionData.id = NoId =>
    /\ g.txs # TxIds
    /\ transactionData.senderId # Null
    /\ transactionData.receiverId # Null

\* The payload that repeats what is stored for a Person.
StoredPayload(g, a) ==
  [ id |-> a, email |-> g.email[a], phone |-> g.phone[a],
    address |-> g.address[a], paymentMethods |-> g.pms[a] ]

\* Do the current attributes of a and b match on the rule of the kind?
RuleMatches(g, kind, a, b) ==
  CASE kind = "SHARED_EMAIL" -> g.email[a] = g.email[b]
    [] kind = "SHARED_PHONE" -> g.phone[a] # Null /\ g.phone[a] = g.phone[b]
    [] kind = "SHARED_ADDRESS" ->
         /\ g.address[a] # NoAddress /\ g.address[b] # NoAddress
         /\ g.address[a].street = g.address[b].street
         /\ g.address[a].city = g.address[b].city
    [] kind = "SHARED_PAYMENT_METHOD" -> g.pms[a] \cap g.pms[b] # {}

\* C1: for two Persons A and B created with the same email, in either order,
\* an update of A to an email B does not have leaves no SHARED_EMAIL edge
\* between them: neither lists the other under SHARED_EMAIL.
C1_EmailChangeRemovesEdge ==
  \A a \in db.users \ db.updated, b \in db.users \ db.updated :
    (a # b /\ db.email[a] = db.email[b]) =>
      \A d \in ContactPayloads :
        (d.id = a /\ d.email # db.email[b]) =>
          LET r == UserUpsert(db, d, 0)
          IN /\ r.last.status = "ok"
             /\ DirectRelationshipCount(r.db, a, "SHARED_EMAIL", b) = 0
             /\ DirectRelationshipCount(r.db, b, "SHARED_EMAIL", a) = 0

\* C2: two Persons with equal email each list the other under SHARED_EMAIL in
\* getUserConnections, whichever of the two was written first.
C2_SharedEmailListedBothWays ==
  \A a \in db.users, b \in db.users :
    (a # b /\ db.email[a] = db.email[b]) =>
      /\ DirectRelationshipCount(db, a, "SHARED_EMAIL", b) >= 1
      /\ DirectRelationshipCount(db, b, "SHARED_EMAIL", a) >= 1

\* The first-created Person was written last (an update) and shares its email
\* with the second: the only edge runs from the first to the second.
C2_Witness ==
  /\ {"u1", "u2"} \subseteq db.users
  /\ db.email["u1"] = db.email["u2"]
  /\ last.op = "upsertUser" /\ last.status = "ok" /\ last.id = "u1"
  /\ db.shared["SHARED_EMAIL"]["u1"]["u2"] = 1
  /\ db.shared["SHARED_EMAIL"]["u2"]["u1"] = 0
  /\ DirectRelationshipCount(db, "u2", "SHARED_EMAIL", "u1") = 1

\* C3: re-upserting a created Person A with the identical full payload and its
\* id leaves, for every other created Person B matching A on a rule, exactly
\* one SHARED_* edge of that kind between A and B (both directions counted),
\* whether B was created before A or after it.
C3_IdempotentUpsert ==
  \A a \in db.users \ db.updated :
    (/\ db.phone[a] # Null /\ db.address[a] # NoAddress /\ db.pms[a] # {}) =>
      LET r == UserUpsert(db, StoredPayload(db, a), 0)
      IN \A b \in db.users \ (db.updated \cup {a}), kind \in UserRelKinds :
           RuleMatches(r.db, kind, a, b) =>
             DirectRelationshipCount(r.db, a, kind, b) = 1

\* C4: after one upsert of A with at least one instrument, the number of
\* SHARED_PAYMENT_METHOD edges from A to any other Person B is the number of
\* pairs (instrument of A, instrument of B) with equal id.
C4_OneEdgePerInstrumentPair ==
  \A d \in PersonPayloads :
    (UserCallable(db, d) /\ d.paymentMethods # {}) =>
      LET r == UserUpsert(db, d, 0)
          a == r.last.entity
      IN r.last.status = "ok" =>
           \A b \in r.db.users \ {a} :
             r.db.shared["SHARED_PAYMENT_METHOD"][a][b]
               = Cardinality(r.db.pms[a] \cap r.db.pms[b])

\* C5: in every reachable state, the payer of every Transfer (start of its
\* SENT edge, stored senderId) differs from its payee (end of its RECEIVED_BY
\* edge, stored receiverId).
C5_PayerDiffersFromPayee ==
  \A t \in db.txs :
    /\ db.senderId[t] # db.receiverId[t]
    /\ \A u \in db.users : ~(db.sent[u][t] > 0 /\ db.receivedBy[t][u] > 0)

\* C6: a create whose payer id equals its payee id fails with a validation
\* error (status 400), whatever the id, and writes nothing.
C6_SamePartyRejected ==
  \A d \in LinkagePayloads :
    (TransactionCallable(db, d) /\ d.id = NoId /\ d.senderId = d.receiverId) =>
      LET r == TransactionUpsert(db, d, 0)
      IN /\ r.last.status = "error"
         /\ r.last.code = "400"
         /\ r.db = db

\* C7: an upsert with an id that matches no stored entity of the kind fails
\* with a not-found error (status 404) and leaves the graph as it was.
C7_UnknownIdNotFound ==
  /\ \A d \in FullUserPayloads :
       (d.id # NoId /\ d.id \notin db.users) =>
         LET r == UserUpsert(db, d, 0)
         IN r.last.status = "error" /\ r.last.code = "404" /\ r.db = db
  /\ \A d \in LinkagePayloads :
       (d.id # NoId /\ d.id \notin db.txs) =>
         LET r == TransactionUpsert(db, d, 0)
         IN r.last.status = "error" /\ r.last.code = "404" /\ r.db = db

\* C8: a successful upsert without an id adds exactly one entity, under an id
\* no entity had, and reports isNew; a successful upsert with the id of an
\* existing entity reports that id and isNew = FALSE and adds no entity.
C8_UpsertDecisionRule ==
  /\ \A d \in FullUserPayloads :
       UserCallable(db, d) =>
         LET r == UserUpsert(db, d, 0)
         IN r.last.status = "ok" =>
              /\ r.db.txs = db.txs
              /\ IF d.id = NoId
                 THEN /\ r.last.isNew
                      /\ r.last.entity \notin db.users
                      /\ r.db.users = db.users \cup {r.last.entity}
                 ELSE /\ ~r.last.isNew
                      /\ r.last.entity = d.id
                      /\ d.id \in db.users
                      /\ r.db.users = db.users
  /\ \A d \in LinkagePayloads :
       TransactionCallable(db, d) =>
         LET r == TransactionUpsert(db, d, 0)
         IN r.last.status = "ok" =>
              /\ r.db.users = db.users
              /\ IF d.id = NoId
                 THEN /\ r.last.isNew
                      /\ r.last.entity \notin db.txs
                      /\ r.db.txs = db.txs \cup {r.last.entity}
                 ELSE /\ ~r.last.isNew
                      /\ r.last.entity = d.id
                      /\ d.id \in db.txs
                      /\ r.db.txs = db.txs

\* Both decisions have been taken: two Persons and a Transfer were created
\* and the last call updated the Transfer by its id.
C8_Witness ==
  /\ Cardinality(db.users) = 2
  /\ last.op = "upsertTransaction" /\ last.status = "ok"
  /\ ~last.isNew /\ last.id \in db.txs /\ last.entity = last.id

\* C9: whenever an upsert fails, at whatever step, the committed graph is the
\* one before the call, the write transaction was rolled back and not
\* committed, and one error reached the caller.
C9_FailedUpsertChangesNothing ==
  /\ \A d \in FullUserPayloads, f \in UserFailPoints :
       UserCallable(db, d) =>
         LET r == UserUpsert(db, d, f)
         IN r.last.status = "error" =>
              r.db = db /\ r.last.tx = "rolledback" /\ r.last.errors = 1
  /\ \A d \in FixedPartyPayloads, f \in TransactionFailPoints :
       TransactionCallable(db, d) =>
         LET r == TransactionUpsert(db, d, f)
         IN r.last.status = "error" =>
              r.db = db /\ r.last.tx = "rolledback" /\ r.last.errors = 1

\* A storage call failed in the update of an existing Transfer whose
\* re-pointing had already changed the uncommitted graph.
C9_Witness ==
  /\ last.op = "upsertTransaction" /\ last.status = "error"
  /\ last.inner = "storage" /\ last.id \in db.txs
  /\ \E d \in FixedPartyPayloads :
       d.id = last.id /\ updateExistingTransaction(db, d.id, d, 1) # db

\* C10: every Transfer has exactly one incoming SENT edge and one outgoing
\* RECEIVED_BY edge, from and to the existing Persons its stored payer and
\* payee ids name; after an update that re-points payer or payee the Transfer
\* is listed as sent only for the new payer and as received only for the new
\* payee.
C10_OneLinkagePairPerTransfer ==
  /\ \A t \in db.txs :
       /\ db.senderId[t] \in db.users /\ db.receiverId[t] \in db.users
       /\ SumOver([u \in UserIds |-> db.sent[u][t]], UserIds) = 1
       /\ SumOver(db.receivedBy[t], UserIds) = 1
       /\ db.sent[db.senderId[t]][t] = 1
       /\ db.receivedBy[t][db.receiverId[t]] = 1
  /\ \A d \in LinkagePayloads :
       (d.id \in db.txs /\ Repoints(d)) =>
         LET r == TransactionUpsert(db, d, 0)
         IN r.last.status = "ok" =>
              \A u \in db.users :
                /\ SentTransactionCount(r.db, u, d.id)
                     = IF u = SenderOrCurrent(db, d.id, d) THEN 1 ELSE 0
                /\ ReceivedTransactionCount(r.db, u, d.id)
                     = IF u = ReceiverOrCurrent(db, d.id, d) THEN 1 ELSE 0

\* The last call re-pointed both ends of an existing Transfer, which is now
\* listed as sent for the new payer only.
C10_Witness ==
  /\ last.op = "upsertTransaction" /\ last.status = "ok" /\ ~last.isNew
  /\ last.sender # Null /\ last.receiver # Null
  /\ db.senderId[last.id] = last.sender
  /\ db.receiverId[last.id] = last.receiver
  /\ SentTransactionCount(db, last.sender, last.id) = 1
  /\ SentTransactionCount(db, last.receiver, last.id) = 0

\* C11: an update of an existing Transfer keeps the stored value of every
\* scalar the payload does not supply (amount, currency, device id), and an
\* update that omits the deviceInfo group leaves the DeviceInfo satellite and
\* the SHARED_IP edges of the Transfer as they were.
C11_PartialUpdateKeepsUnsupplied ==
  \A d \in DevicePayloads :
    d.id \in db.txs =>
      LET r == TransactionUpsert(db, d, 0)
          t == d.id
      IN r.last.status = "ok" =>
           /\ d.amount = NullAmount => r.db.amount[t] = db.amount[t]
           /\ d.currency = Null => r.db.currency[t] = db.currency[t]
           /\ d.deviceId = Null => r.db.deviceId[t] = db.deviceId[t]
           /\ d.deviceInfo = NoDevice =>
                /\ r.db.deviceIp[t] = db.deviceIp[t]
                /\ r.db.sharedTx["SHARED_IP"] = db.sharedTx["SHARED_IP"]

\* C12: after any sequence of Person upserts, two distinct Persons are joined
\* by a SHARED_PHONE, SHARED_ADDRESS or SHARED_PAYMENT_METHOD edge (in either
\* direction) if and only if their stored phone, (street, city) or some
\* instrument id, respectively, are equal.
C12_DerivedEdgesMatchAttributes ==
  \A a \in db.users, b \in db.users :
    a # b =>
      \A kind \in {"SHARED_PHONE", "SHARED_ADDRESS", "SHARED_PAYMENT_METHOD"} :
        DirectRelationshipCount(db, a, kind, b) >= 1 <=> RuleMatches(db, kind, a, b)

\* C13: for distinct Transfers T1 and T2, T2 is listed in the
\* sharedIPTransactions of T1 exactly once if both own a DeviceInfo with the
\* same IP and not at all otherwise, and in sharedDeviceTransactions exactly
\* once if both store the same non-null device id and not at all otherwise;
\* T2 is listed for T1 iff T1 is listed for T2.
C13_SharedTransfersListedOnce ==
  \A t1 \in db.txs, t2 \in db.txs :
    t1 # t2 =>
      /\ SharedIPTransactionCount(db, t1, t2)
           = IF db.deviceIp[t1] \in Ips /\ db.deviceIp[t1] = db.deviceIp[t2] THEN 1 ELSE 0
      /\ SharedDeviceTransactionCount(db, t1, t2)
           = IF db.deviceId[t1] # Null /\ db.deviceId[t1] = db.deviceId[t2] THEN 1 ELSE 0
      /\ SharedIPTransactionCount(db, t1, t2) = SharedIPTransactionCount(db, t2, t1)
      /\ SharedDeviceTransactionCount(db, t1, t2) = SharedDeviceTransactionCount(db, t2, t1)

\* The first-created Transfer was updated last: it shares its IP with the
\* second but no longer its device id, and the one SHARED_IP edge runs from
\* the first to the second.
C13_Witness ==
  /\ db.txs = {"t1", "t2"}
  /\ last.op = "upsertTransaction" /\ last.status = "ok" /\ last.id = "t1"
  /\ db.deviceIp["t1"] \in Ips /\ db.deviceIp["t1"] = db.deviceIp["t2"]
  /\ db.deviceId["t1"] # db.deviceId["t2"] /\ db.deviceId["t2"] # Null
  /\ db.sharedTx["SHARED_IP"]["t1"]["t2"] = 1
  /\ db.sharedTx["SHARED_IP"]["t2"]["t1"] = 0
  /\ SharedIPTransactionCount(db, "t2", "t1") = 1
  /\ SharedDeviceTransactionCount(db, "t2", "t1") = 0

\* Is the Person payer or payee of the Transfer?
PartyOf(g, userId, transactionId) ==
  g.sent[userId][transactionId] > 0 \/ g.receivedBy[transactionId][userId] > 0

\* C14: the transactionRelationships of P list every other Person Q for whom
\* some Transfer T1 with P as payer or payee is joined by a SHARED_IP or
\* SHARED_DEVICE edge, stored in either direction, to a Transfer T2 with Q as
\* payer or payee, under the kind of the edge.
C14_SharedTransferPersonsListed ==
  \A p \in db.users, q \in db.users, kind \in TxRelKinds :
    (/\ p # q
     /\ \E t1 \in db.txs, t2 \in db.txs :
          /\ PartyOf(db, p, t1) /\ PartyOf(db, q, t2)
          /\ db.sharedTx[kind][t1][t2] + db.sharedTx[kind][t2][t1] > 0)
      => SharedTransactionRelationshipCount(db, p, kind, q) >= 1

\* C15: a create whose payer or payee id names no Person, and an update of
\* an existing Transfer that supplies such an id, fail with a not-found error
\* (status 404) and leave the graph as it was.
C15_UnknownPartyNotFound ==
  \A d \in LinkagePayloads :
    (/\ TransactionCallable(db, d)
     /\ d.id = NoId \/ d.id \in db.txs
     /\ \/ d.senderId # Null /\ d.senderId \notin db.users
        \/ d.receiverId # Null /\ d.receiverId \notin db.users) =>
      LET r == TransactionUpsert(db, d, 0)
      IN r.last.status = "error" /\ r.last.code = "404" /\ r.db = db

Neighbours(g, id) ==
  IF id \in g.users
  THEN {t \in g.txs : g.sent[id][t] > 0 \/ g.receivedBy[t][id] > 0}
  ELSE {u \in g.users : g.sent[u][id] > 0 \/ g.receivedBy[id][u] > 0}

MaxHops == MaxUsers + MaxTransactions

\* The least n' >= n with b within n' - n hops of the set S; MaxHops + 1: none.
RECURSIVE HopsFrom(_, _, _, _)
HopsFrom(g, S, b, n) ==
  IF b \in S THEN n
  ELSE IF n >= MaxHops THEN MaxHops + 1
  ELSE HopsFrom(g, S \cup UNION {Neighbours(g, x) : x \in S}, b, n + 1)

\* Hop count from a to b over SENT / RECEIVED_BY edges; MaxHops + 1: none.
HopCount(g, a, b) == HopsFrom(g, {a}, b, 0)

\* C17: for Persons joined by a chain through k Transfers and by no shorter
\* one, findShortestPath returns length 2k, a node list that starts at the
\* first argument, ends at the second and alternates Persons with k
\* Transfers, and 2k edges; for k = 1 the node list is [A, T, B].
C17_ChainThroughTransfers ==
  \A a \in db.users, b \in db.users :
    (a # b /\ HopCount(db, a, b) <= MaxHops) =>
      \A r \in findShortestPathBetweenUsers(db, a, b) :
        /\ r.status = "ok"
        /\ r.length = HopCount(db, a, b)
        /\ Len(r.nodes) = r.length + 1
        /\ Len(r.relationships) = r.length
        /\ r.nodes[1] = a /\ r.nodes[Len(r.nodes)] = b
        /\ \A i \in 1..Len(r.nodes) :
             IF i % 2 = 1 THEN r.nodes[i] \in db.users ELSE r.nodes[i] \in db.txs
        /\ \A i \in 1..(Len(r.nodes) - 1) : r.nodes[i + 1] \in Neighbours(db, r.nodes[i])
        /\ r.length = 2 =>
             \E t \in db.txs : r.nodes = <<a, t, b>> /\ PartyOf(db, a, t) /\ PartyOf(db, b, t)

\* The first and the third Person are joined through two Transfers and the
\* second Person only: the path from the third to the first has length 4.
C17_Witness ==
  /\ db.users = {"u1", "u2", "u3"} /\ db.txs = {"t1", "t2"}
  /\ HopCount(db, "u3", "u1") = 4
  /\ \E r \in findShortestPathBetweenUsers(db, "u3", "u1") :
       /\ r.status = "ok" /\ r.length = 4
       /\ r.nodes[1] = "u3" /\ r.nodes[3] = "u2" /\ r.nodes[5] = "u1"

\* C18: for two distinct existing Persons findShortestPath succeeds if and
\* only if SENT and RECEIVED_BY edges alone, taken in either direction, connect
\* them, and the returned length is the least hop count over those edges;
\* the SHARED_* edges neither connect two Persons nor shorten a path.
C18_ShortestOverLinkageOnly ==
  \A a \in db.users, b \in db.users :
    a # b =>
      \A r \in findShortestPathBetweenUsers(db, a, b) :
        IF HopCount(db, a, b) <= MaxHops
        THEN r.status = "ok" /\ r.length = HopCount(db, a, b)
        ELSE r.status = "404"

\* Two Persons with a Transfer between them (2 hops) are also chained through
\* a third Person (4 hops) and joined by a SHARED_EMAIL edge (1 hop), and
\* their Transfers by SHARED_IP edges.  The call returns length 2.
C18_Witness ==
  /\ db.users = {"u1", "u2", "u3"}
  /\ HopCount(db, "u1", "u2") = 2
  /\ \E n \in PathsFrom(PathRelationships(db), <<"u1">>, "u2") : Len(n) = 5
  /\ db.shared["SHARED_EMAIL"]["u2"]["u1"] > 0
  /\ \E t1 \in db.txs, t2 \in db.txs : db.sharedTx["SHARED_IP"][t1][t2] > 0
  /\ \A r \in findShortestPathBetweenUsers(db, "u1", "u2") :
       r.status = "ok" /\ r.length = 2

\* C19: in every result of findShortestPath the i-th edge starts at the i-th
\* node and ends at the (i+1)-th node of the node list, an edge reported as
\* SENT runs from a Person to a Transfer and an edge reported as RECEIVED_BY
\* from a Transfer to a Person, whichever way the stored edges are traversed.
C19_EdgesFollowNodeList ==
  \A a \in db.users, b \in db.users :
    \A r \in findShortestPathBetweenUsers(db, a, b) :
      r.status = "ok" =>
        \A i \in 1..Len(r.relationships) :
          LET rel == r.relationships[i]
          IN /\ i + 1 <= Len(r.nodes)
             /\ rel.startNodeId = r.nodes[i]
             /\ rel.endNodeId = r.nodes[i + 1]
             /\ rel.type \in {"SENT", "RECEIVED_BY"}
             /\ rel.type = "SENT" =>
                  rel.startNodeId \in db.users /\ rel.endNodeId \in db.txs
             /\ rel.type = "RECEIVED_BY" =>
                  rel.startNodeId \in db.txs /\ rel.endNodeId \in db.users

\* The path from the payee of a Transfer to its payer traverses both stored
\* edges backwards: the RECEIVED_BY edge is reported as SENT from the payee.
C19_Witness ==
  \E t \in db.txs :
    /\ db.senderId[t] = "u1" /\ db.receiverId[t] = "u2"
    /\ db.sent["u1"][t] = 1 /\ db.receivedBy[t]["u2"] = 1
    /\ \E r \in findShortestPathBetweenUsers(db, "u2", "u1") :
         /\ r.status = "ok" /\ r.nodes = <<"u2", t, "u1">>
         /\ r.relationships[1] = [type |-> "SENT", startNodeId |-> "u2", endNodeId |-> t]
         /\ r.relationships[2] = [type |-> "RECEIVED_BY", startNodeId |-> t, endNodeId |-> "u1"]

\* The rows that differ from row in one relationship, replaced by another
\* stored SENT / RECEIVED_BY relationship.
RowsWithOneReplaced(g, row) ==
  {[row EXCEPT !.relationships[i] = q] :
     i \in 1..Len(row.relationships), q \in PathRelationships(g)}

\* C20: every result findShortestPath returns has as many edges as its
\* reported length, one less than its nodes; whenever the direction
\* correction drops an edge, so that the counts disagree, the call fails with
\* a 500 error and returns nothing.
C20_EdgeCountEqualsLength ==
  \A a \in db.users, b \in db.users :
    /\ \A r \in findShortestPathBetweenUsers(db, a, b) :
         r.status = "ok" =>
           /\ Len(r.relationships) = r.length
           /\ r.length = Len(r.nodes) - 1
    /\ a # b =>
         \A row \in ShortestPathRows(db, a, b) :
           \A other \in RowsWithOneReplaced(db, row) :
             LET r == PathResult(db, other)
             IN IF Len(ProcessRelationships(db, other.nodes, other.relationships))
                     = other.pathLength
                THEN /\ r.status = "ok"
                     /\ Len(r.relationships) = r.length
                     /\ r.length = Len(r.nodes) - 1
                ELSE r.status = "500"

\* A path of length 4 is returned with four edges, and the same row with its
\* first relationship replaced by one that does not join the first two nodes
\* is answered with a 500.
C20_Witness ==
  \E row \in ShortestPathRows(db, "u1", "u3") :
    /\ PathResult(db, row).status = "ok"
    /\ PathResult(db, row).length = 4
    /\ Len(PathResult(db, row).relationships) = 4
    /\ \E other \in RowsWithOneReplaced(db, row) :
         /\ other.relationships[1] # row.relationships[1]
         /\ PathResult(db, other).status = "500"

\* C21: findShortestPath(A, A) fails for every existing Person A, whatever
\* Transfers A is payer or payee of: no outcome is a result, of length 0 or
\* along a cycle through A.
C21_NoPathToSelf ==
  \A a \in db.users :
    \A r \in findShortestPathBetweenUsers(db, a, a) :
      r.status # "ok" /\ r.nodes = <<>>

\* The first Person pays the second in one Transfer and is paid by the second
\* in another: a cycle of four edges leads from the first Person back to it.
C21_Witness ==
  /\ \E t1 \in db.txs, t2 \in db.txs :
       /\ db.sent["u1"][t1] = 1 /\ db.receivedBy[t1]["u2"] = 1
       /\ db.sent["u2"][t2] = 1 /\ db.receivedBy[t2]["u1"] = 1
  /\ findShortestPathBetweenUsers(db, "u1", "u1") = {PathError("404"), PathError("500")}

\* C22: findShortestPath fails with a 404 error when either id names no
\* Person and with a 404 error when both Persons exist and no chain of SENT /
\* RECEIVED_BY edges joins them; the caller sees the 404, not a 500.
C22_PathNotFound ==
  \A a \in UserIds \cup {GhostId}, b \in UserIds \cup {GhostId} :
    (\/ a \notin db.users \/ b \notin db.users
     \/ a # b /\ HopCount(db, a, b) > MaxHops) =>
      \A r \in findShortestPathBetweenUsers(db, a, b) :
        r.status = "404" /\ r.nodes = <<>> /\ r.relationships = <<>>

\* Three Persons exist; the first two are joined by a Transfer, the third is
\* party to none and joined to the first by a SHARED_EMAIL edge only: the
\* call for the first and the third has the one outcome 404.
C22_Witness ==
  /\ db.users = {"u1", "u2", "u3"}
  /\ HopCount(db, "u1", "u2") = 2
  /\ \A t \in db.txs : ~PartyOf(db, "u3", t)
  /\ db.shared["SHARED_EMAIL"]["u3"]["u1"] > 0
  /\ \E r \in findShortestPathBetweenUsers(db, "u1", "u3") : r.status = "404"
  /\ \E r \in findShortestPathBetweenUsers(db, "u1", GhostId) : r.status = "404"

\* C23: two Persons created with the same email by overlapping upserts can
\* miss each other's SHARED_EMAIL edge and lose nothing else (both are stored
\* with their email); a later successful update of either with its email
\* unchanged leaves a SHARED_EMAIL edge between the two.
C23_MissedEdgeRepaired ==
  \A a \in db.users, b \in db.users :
    (a # b /\ db.email[a] = db.email[b]) =>
      /\ db.email[a] \in Emails
      /\ \A userData \in EmailUpdates :
           (userData.id = a /\ userData.email = db.email[a]) =>
             LET r == UserUpsert(db, userData, 0)
             IN /\ r.last.status = "ok"
                /\ DirectRelationshipCount(r.db, a, "SHARED_EMAIL", b) >= 1

\* Both creates have committed, neither Person was updated since, the emails
\* are equal and no SHARED_EMAIL edge joins the two: each scan ran before the
\* other transaction committed.
C23_Witness ==
  /\ \A c \in Callers : inflight[c].pc = "idle"
  /\ db.users = {"u1", "u2"} /\ db.updated = {}
  /\ db.email["u1"] = db.email["u2"]
  /\ DirectRelationshipCount(db, "u1", "SHARED_EMAIL", "u2") = 0

\* C29: however two creates of Persons with equal email interleave, the
\* committed graph holds at most one SHARED_EMAIL edge between the two Persons
\* they created (Persons not updated since): never one edge in each direction.
C29_NoDuplicatePair ==
  \A a \in db.users, b \in db.users :
    (a # b /\ a \notin db.updated /\ b \notin db.updated) =>
      /\ db.shared["SHARED_EMAIL"][a][b] + db.shared["SHARED_EMAIL"][b][a] <= 1
      /\ db.shared["SHARED_EMAIL"][a][b] + db.shared["SHARED_EMAIL"][b][a] = 1
           => db.email[a] = db.email[b]

\* The two creates overlapped and one linked: the second Person of the pool
\* is committed (its id was drawn while the first was uncommitted, its scan
\* did not see the first), the first is still in flight with the same email
\* and its scan has matched the second.
C29_Witness ==
  /\ db.users = {"u2"} /\ db.updated = {}
  /\ \E c \in Callers :
       /\ inflight[c].pc = "scanned" /\ inflight[c].id = "u1"
       /\ inflight[c].email = db.email["u2"]
       /\ inflight[c].rows["u2"] = 1

C24_Pagination ==
  LET N == Cardinality(db.users)
      p == last.page
      L == last.limit
      page == last.result
  IN /\ last.op = "getAllUsers" =>
          /\ p >= 1 /\ L >= 1
          /\ Len(page.users) = Min(L, Max(0, N - (p - 1) * L))
          /\ page.totalPages * L >= N
          /\ page.totalPages = 0 \/ (page.totalPages - 1) * L < N
          /\ page.currentPage = p
          /\ page.hasNextPage <=> p < page.totalPages
          /\ page.hasPreviousPage <=> p > 1
          /\ \A i \in 1..Len(page.users) : page.users[i] = N + 1 - ((p - 1) * L + i)
     /\ (last.op \in {"getAllUsers", "searchUsers"} /\ N = 25 /\ L = 10) =>
          /\ p = 1 => /\ Len(page.users) = 10
                      /\ page.hasNextPage /\ ~page.hasPreviousPage
          /\ p = 3 => /\ Len(page.users) = 5
                      /\ ~page.hasNextPage /\ page.hasPreviousPage

\* 25 Persons were listed with limit 10, page 3: five items came back, the
\* last of three pages.
C24_Witness ==
  /\ Cardinality(db.users) = 25
  /\ last.op = "getAllUsers" /\ last.page = 3 /\ last.limit = 10
  /\ Len(last.result.users) = 5 /\ last.result.totalPages = 3
  /\ ~last.result.hasNextPage /\ last.result.hasPreviousPage

\* C25: whatever page and limit a list or search request carries, the store
\* is queried with a page >= 1 and a limit between 1 and 100.
C25_LimitClamped ==
  last.op \in {"getAllUsers", "searchUsers", "searchTransactions"} =>
    /\ last.page >= 1
    /\ last.limit >= 1 /\ last.limit <= MaxSearchLimit
    /\ Len(last.result.users) <= MaxSearchLimit

\* C27: a successful update of Person A changes A's own attributes, A's own
\* Address and PaymentInstrument satellites and the derived edges whose source
\* is A, and nothing else: the derived edges of every other source (those
\* pointing at A included), every other Person and its satellites, and every
\* Transfer with its SENT / RECEIVED_BY / SHARED_IP / SHARED_DEVICE edges stay.
C27_UpdateFrame ==
  \A userData \in PersonPayloads :
    userData.id \in db.users =>
      LET A == userData.id
          r == UserUpsert(db, userData, 0)
      IN /\ r.last.status = "ok" /\ ~r.last.isNew
         /\ r.db.users = db.users
         /\ \A b \in UserIds \ {A} :
              /\ r.db.email[b] = db.email[b] /\ r.db.phone[b] = db.phone[b]
              /\ r.db.address[b] = db.address[b] /\ r.db.pms[b] = db.pms[b]
              /\ (b \in r.db.updated) = (b \in db.updated)
              /\ \A k \in UserRelKinds : r.db.shared[k][b] = db.shared[k][b]
         /\ r.db.txs = db.txs
         /\ r.db.senderId = db.senderId /\ r.db.receiverId = db.receiverId
         /\ r.db.amount = db.amount /\ r.db.currency = db.currency
         /\ r.db.deviceId = db.deviceId /\ r.db.deviceIp = db.deviceIp
         /\ r.db.sent = db.sent /\ r.db.receivedBy = db.receivedBy
         /\ r.db.sharedTx = db.sharedTx

\* The first Person has just been updated; the SHARED_EMAIL edge the second
\* Person's create drew to it is still there, next to the one the update
\* drew from it, and a Transfer exists.
C27_Witness ==
  /\ last.op = "upsertUser" /\ last.status = "ok" /\ ~last.isNew /\ last.id = "u1"
  /\ db.users = {"u1", "u2"} /\ db.txs # {}
  /\ db.shared["SHARED_EMAIL"]["u2"]["u1"] > 0
  /\ db.shared["SHARED_EMAIL"]["u1"]["u2"] > 0

\* C28: in every graph that successful upserts can build, for every two
\* distinct Persons joined through SENT / RECEIVED_BY edges, the direction
\* correction keeps every edge of the path (each is stored along or against
\* its node pair and passes the node-type check) and the call never ends in
\* the length-mismatch 500.
C28_NoEdgeDropped ==
  \A a \in db.users, b \in db.users :
    (a # b /\ HopCount(db, a, b) <= MaxHops) =>
      /\ ShortestPathRows(db, a, b) # {}
      /\ \A row \in ShortestPathRows(db, a, b) :
           /\ \A index \in 1..Len(row.relationships) :
                LET rel == row.relationships[index]
                IN /\ \/ rel.start = row.nodes[index] /\ rel.end = row.nodes[index + 1]
                      \/ rel.start = row.nodes[index + 1] /\ rel.end = row.nodes[index]
                   /\ CorrectDirection(db, rel, row.nodes, index) # DroppedRelationship
           /\ Len(ProcessRelationships(db, row.nodes, row.relationships)) = row.pathLength
      /\ \A r \in findShortestPathBetweenUsers(db, a, b) : r.status = "ok"

\* A Transfer whose payer and payee are the same Person exists (left by a
\* one-sided update), another Transfer joins the second Person to the first,
\* and the path from the payee back to the payer, every edge of it stored
\* against the traversal, is answered.
C28_Witness ==
  /\ \E t \in db.txs : db.senderId[t] = db.receiverId[t]
  /\ \E t \in db.txs : db.sent["u1"][t] = 1 /\ db.receivedBy[t]["u2"] = 1
  /\ \E row \in ShortestPathRows(db, "u2", "u1") :
       /\ \A index \in 1..Len(row.relationships) :
            /\ row.relationships[index].start = row.nodes[index + 1]
            /\ row.relationships[index].end = row.nodes[index]
       /\ PathResult(db, row).status = "ok"

\* C30: getUserConnections with an id that names no Person does not fail and
\* returns four empty lists; getTransactionConnections with an id that names
\* no Transfer fails with a 404; neither call changes the graph.
C30_UnknownIdConnections ==
  [][ /\ (last'.op = "getUserConnections" /\ last'.id \notin db.users) =>
           /\ last'.status = "ok" /\ last'.entries = 0
           /\ getUserConnections(db, last'.id).directRelationships = 0
           /\ getUserConnections(db, last'.id).transactionRelationships = 0
           /\ getUserConnections(db, last'.id).sentTransactions = 0
           /\ getUserConnections(db, last'.id).receivedTransactions = 0
           /\ db' = db
      /\ (last'.op = "getTransactionConnections" /\ last'.id \notin db.txs) =>
           /\ last'.status = "error" /\ last'.code = "404"
           /\ db' = db ]_vars

\* Two Persons and two Transfers that share a device exist, and the
\* connections of an id no Person carries were asked for: the answer is a
\* result with no entry.
C30_Witness ==
  /\ db.users = {"u1", "u2"} /\ Cardinality(db.txs) = 2
  /\ \E a \in db.txs, b \in db.txs : db.sharedTx["SHARED_DEVICE"][a][b] > 0
  /\ last.op = "getUserConnections" /\ last.id = GhostId
  /\ last.status = "ok" /\ last.entries = 0

====
